---- MODULE Spec2Model ----
(***************************************************************************)
(* The suggestion pipeline of whatsapp_things_to_do: the canonical         *)
(* suggestions table, the classifier queue (llm_candidates) and the        *)
(* stages that write them: the first pass (store_suggestions), the         *)
(* semantic stage that saves the queue, classify_all_candidates and        *)
(* merge_suggestions.  The first pass (suggestion_extractor.py), the       *)
(* embedding and search of embeddings.py, and classify_all_candidates      *)
(* taken step by step have specifications of their own.                    *)
(*                                                                         *)
(* Conventions.  SQL NULL / Python None is the empty tuple <<>>; a value v *)
(* of a nullable column is <<v>>.  REAL confidences and similarities are   *)
(* integers in hundredths (0.9 is 90).  A table without a uniqueness       *)
(* constraint is a bag of rows: the AUTOINCREMENT id of suggestions only   *)
(* tells two copies of a row apart, which a bag's count does.              *)
(***************************************************************************)
EXTENDS Integers, Sequences, FiniteSets, Bags, TLC

VARIABLES
    suggestions,     \* the suggestions table: a bag of rows
    llm_candidates,  \* the classifier queue: message_id -> entry (PRIMARY KEY)
    lastOp,          \* the stage that ran last
    sent,            \* the batches the last classify run requested, in order
    replies,         \* the outcome of each of those requests
    stats,           \* what the last classify run returned; NULL if it raised
    urls_resolved,   \* the message ids whose urls row has a resolved_url
    messages,        \* the messages table with the urls rows of each message
    first_pass,      \* the candidate lists of the last first pass
    embeddings,      \* the embeddings table: message_id -> vector (PRIMARY KEY)
    embed_run,       \* the provider calls of the last embed_all_messages
    searches,        \* the seed searches of the last find_activity_candidates
    classify_run,    \* the classify run in progress, NULL when none is
    cosine           \* the last call of cosine_similarity, NULL when none was

\* What the pipeline stages of classifier.py, geocoder.py and the resolvers
\* never write.
other_vars ==
    << messages, first_pass, embeddings, embed_run, searches, classify_run,
       cosine >>

vars == << suggestions, llm_candidates, lastOp, sent, replies, stats,
           urls_resolved, messages, first_pass, embeddings, embed_run,
           searches, classify_run, cosine >>

\* Bounds of the model.
MaxMsg == 2
MaxCands == 2

\* BATCH_SIZE of classifier.py, scaled down from 20 to the size of the
\* queues explored here.
BATCH_SIZE == 2

MsgIds == 1 .. MaxMsg

NULL == <<>>
Some(v) == <<v>>

\* COALESCE(a, b) of SQLite.
Coalesce(a, b) == IF a # NULL THEN a ELSE b

\* The scalar MAX(a, b) of SQLite on two non-null numbers.
Max(a, b) == IF a >= b THEN a ELSE b

Min(a, b) == IF a <= b THEN a ELSE b

\* The messages table: read-only to every stage modelled here.  The corpus is
\* repeated when there are more message ids than texts.
Corpus ==
    << "We should try that new hiking trail at Coromandel!",
       "we should go here https://maps.app.goo.gl/abc",
       "dinner was nice" >>

CorpusContent(m) == Corpus[((m - 1) % Len(Corpus)) + 1]

\* SELECT content FROM messages WHERE id = ?
Content(m) == messages[m].content

\* The urls table: the url_type of the link of each text of the corpus.
CorpusUrlType == << NULL, Some("google_maps"), NULL >>

UrlType(m) == CorpusUrlType[((m - 1) % Len(CorpusUrlType)) + 1]

\* SELECT ... FROM urls WHERE url_type = 'google_maps'
GoogleMapsMsgs == { m \in MsgIds : UrlType(m) = Some("google_maps") }

\* s["content"][:500] of store_suggestions.
ACTIVITY_CHARS == 500
Truncate(content) == SubSeq(content, 1, Min(Len(content), ACTIVITY_CHARS))

----------------------------------------------------------------------------
\* Inputs.

\* A first-pass candidate as find_suggestions_regex / find_url_suggestions
\* build it: the we_should rule with its base confidence 0.9, a google_maps
\* link with its base confidence 0.7.  Its content is the message's content.
Candidates ==
    { [message_id |-> m, suggestion_type |-> t.type, confidence |-> t.conf] :
        m \in MsgIds,
        t \in { [type |-> "regex:we_should", conf |-> 90],
                [type |-> "url:google_maps", conf |-> 70] } }

RECURSIVE SeqsUpTo(_, _)
SeqsUpTo(S, n) ==
    IF n = 0 THEN { <<>> }
    ELSE LET shorter == SeqsUpTo(S, n - 1)
         IN  shorter \cup { Append(q, x) : q \in { r \in shorter : Len(r) = n - 1 }, x \in S }

CandidateLists == SeqsUpTo(Candidates, MaxCands)

\* Similarities the semantic stage records (all at or above its 0.25 cut).
Similarities == { 50, 80 }

\* What the judgment service may say about one message of a list reply:
\* nothing, not a suggestion, or a suggestion with activity and location.
\* The confidence is the service's own; no column of the queue takes it.
Verdicts ==
    { [v |-> "none"], [v |-> "neg"],
      [v |-> "pos", activity |-> Some("picnic"), location |-> Some("Piha"),
       confidence |-> 95],
      [v |-> "pos", activity |-> NULL, location |-> NULL, confidence |-> 95] }

\* The outcomes of one batch request.
\*   error    client.messages.create raises (timeout, network, API error)
\*   nojson   a reply with neither a fenced block nor a [...] span
\*   badjson  a block json.loads cannot parse
\*   notlist  a parsed value whose elements are not verdict objects
\*   list     a list of verdict objects
ReplyKinds == { "error", "nojson", "badjson", "notlist", "list" }

BatchOutcomes(batch, kinds, verdicts) ==
    { [kind |-> k] : k \in kinds \ { "list" } }
    \cup { [kind |-> "list", verdict |-> f] :
             f \in IF "list" \in kinds THEN [batch -> verdicts] ELSE {} }

----------------------------------------------------------------------------

\* The messages and urls tables parser.store_messages leaves for the corpus.
CorpusRow(m) ==
    [ content |-> CorpusContent(m),
      urls |-> IF UrlType(m) = NULL THEN << >>
               ELSE << [ url |-> "https://maps.app.goo.gl/abc",
                         url_type |-> UrlType(m)[1] ] >> ]

CorpusTable == [ m \in MsgIds |-> CorpusRow(m) ]

\* The state after parser.init_database and a semantic stage that found no
\* candidate: every table but messages and urls exists and is empty.
InitTables ==
    /\ suggestions = EmptyBag
    /\ llm_candidates = << >>
    /\ lastOp = "init"
    /\ sent = << >>
    /\ replies = << >>
    /\ stats = NULL
    /\ urls_resolved = {}
    /\ first_pass = [ regex |-> << >>, url |-> << >> ]
    /\ embeddings = << >>
    /\ embed_run = << >>
    /\ searches = << >>
    /\ classify_run = NULL

Init ==
    /\ InitTables
    /\ messages = CorpusTable
    /\ cosine = NULL

NoRun == /\ sent' = << >>
         /\ replies' = << >>
         /\ stats' = NULL

----------------------------------------------------------------------------
\* store_suggestions

\* The loop with >= in place of >: among equal confidences the last wins.
RECURSIVE DedupeKeepLast(_, _)
DedupeKeepLast(cands, by_message) ==
    IF cands = << >> THEN by_message
    ELSE LET s == Head(cands)
             msg_id == s.message_id
             next == IF msg_id \notin DOMAIN by_message
                        \/ s.confidence >= by_message[msg_id].confidence
                     THEN [m \in DOMAIN by_message \cup {msg_id} |->
                             IF m = msg_id THEN s ELSE by_message[m]]
                     ELSE by_message
         IN  DedupeKeepLast(Tail(cands), next)

\* The loop over the candidates that fills by_message: a later candidate
\* replaces the kept one only with a strictly higher confidence.
RECURSIVE DedupeByMessage(_, _)
DedupeByMessage(cands, by_message) ==
    IF cands = << >> THEN by_message
    ELSE LET s == Head(cands)
             msg_id == s.message_id
             next == IF msg_id \notin DOMAIN by_message
                        \/ s.confidence > by_message[msg_id].confidence
                     THEN [m \in DOMAIN by_message \cup {msg_id} |->
                             IF m = msg_id THEN s ELSE by_message[m]]
                     ELSE by_message
         IN  DedupeByMessage(Tail(cands), next)

\* The INSERT without the extracted_activity column.
StoredRowNoActivity(s) ==
    [ message_id |-> s.message_id,
      suggestion_type |-> s.suggestion_type,
      confidence |-> s.confidence,
      extracted_activity |-> NULL,
      location_text |-> NULL,
      latitude |-> NULL,
      longitude |-> NULL,
      status |-> "pending" ]

\* The row one INSERT of store_suggestions writes; the other columns take
\* their defaults.
StoredRow(s) ==
    [ message_id |-> s.message_id,
      suggestion_type |-> s.suggestion_type,
      confidence |-> s.confidence,
      extracted_activity |-> Some(Truncate(Content(s.message_id))),
      location_text |-> NULL,
      latitude |-> NULL,
      longitude |-> NULL,
      status |-> "pending" ]

RECURSIVE RowsOfAll(_)
RowsOfAll(cands) ==
    IF cands = << >> THEN EmptyBag
    ELSE SetToBag({ StoredRow(Head(cands)) }) (+) RowsOfAll(Tail(cands))

\* store_suggestions without the deduplication: one row per candidate.
StoreRowsNoDedupe(cands) == RowsOfAll(cands)

\* The table store_suggestions leaves: one row per key of by_message.
StoreRows(cands) ==
    LET by_message == DedupeByMessage(cands, << >>)
    IN  SetToBag({ StoredRow(by_message[m]) : m \in DOMAIN by_message })

store_suggestions ==
    \E cands \in CandidateLists :
        /\ suggestions' = StoreRows(cands)
        /\ lastOp' = "store"
        /\ NoRun
        /\ UNCHANGED << llm_candidates, urls_resolved >>
        /\ UNCHANGED other_vars

----------------------------------------------------------------------------
\* The semantic stage (embeddings.main): clear the queue and insert the
\* candidates of find_activity_candidates, one per message id.

\* An entry created already processed (DEFAULT TRUE).
NewEntryProcessed(similarity) ==
    [ similarity |-> similarity,
      processed |-> TRUE,
      is_suggestion |-> NULL,
      extracted_activity |-> NULL,
      extracted_location |-> NULL ]

NewEntry(similarity) ==
    [ similarity |-> similarity,
      processed |-> FALSE,
      is_suggestion |-> NULL,
      extracted_activity |-> NULL,
      extracted_location |-> NULL ]

SavedQueue(cands) == [m \in DOMAIN cands |-> NewEntry(cands[m])]

SaveCandidates(similarities) ==
    \E ids \in SUBSET DOMAIN messages :
        \E cands \in [ids -> similarities] :
            /\ llm_candidates' = SavedQueue(cands)
            /\ lastOp' = "save"
            /\ NoRun
            /\ UNCHANGED << suggestions, urls_resolved >>
            /\ UNCHANGED other_vars

----------------------------------------------------------------------------
\* classify_all_candidates

Range(q) == { q[i] : i \in DOMAIN q }

\* SELECT ... WHERE processed = FALSE ORDER BY similarity DESC: the
\* unprocessed message ids, highest similarity first; SQL leaves the order of
\* rows of equal similarity open.
\* The SELECT without its WHERE processed = FALSE.
AllQueued(queue) == DOMAIN queue

Unprocessed(queue) == { m \in DOMAIN queue : ~queue[m].processed }

SelectUnprocessed(queue) ==
    LET ids == Unprocessed(queue)
        n == Cardinality(ids)
    IN  { c \in [1 .. n -> ids] :
            /\ \A i, j \in 1 .. n : i # j => c[i] # c[j]
            /\ \A i \in 1 .. n - 1 :
                 queue[c[i]].similarity >= queue[c[i + 1]].similarity }

\* candidates[i:i + BATCH_SIZE] for i in range(0, len(candidates), BATCH_SIZE)
NumBatches(candidates) == (Len(candidates) + BATCH_SIZE - 1) \div BATCH_SIZE

Batch(candidates, b) ==
    SubSeq(candidates, (b - 1) * BATCH_SIZE + 1,
           Min(b * BATCH_SIZE, Len(candidates)))

Batches(candidates) ==
    [b \in 1 .. NumBatches(candidates) |-> Batch(candidates, b)]

\* One outcome for every batch.
RECURSIVE OutcomeVectors(_, _, _)
OutcomeVectors(batches, kinds, verdicts) ==
    IF batches = << >> THEN { << >> }
    ELSE { << o >> \o rest :
             o \in BatchOutcomes(Range(Head(batches)), kinds, verdicts),
             rest \in OutcomeVectors(Tail(batches), kinds, verdicts) }

\* classify_batch: the results list handed back for one request.  Every
\* exception (the request failing, json.loads failing) and a reply without a
\* JSON span give the empty list; a parsed list gives its verdict objects.
\* For "notlist" it hands back the parsed value as it is.
classify_batch(outcome) ==
    IF outcome.kind = "list"
    THEN LET with == { m \in DOMAIN outcome.verdict : outcome.verdict[m].v # "none" }
         IN  [m \in with |-> outcome.verdict[m]]
    ELSE << >>

\* next((r for r in results if r.get("message_id") == msg_id), None) raises
\* on a parsed value that is not a list of objects.
Raises(outcome) == outcome.kind = "notlist"

\* The loop marking only the messages that have a verdict in the reply.
MarkOnlyVerdicts(entry, results, msg_id) ==
    IF msg_id \in DOMAIN results /\ results[msg_id].v = "pos"
    THEN [entry EXCEPT !.processed = TRUE,
                       !.is_suggestion = Some(TRUE),
                       !.extracted_activity = results[msg_id].activity,
                       !.extracted_location = results[msg_id].location]
    ELSE IF msg_id \in DOMAIN results
         THEN [entry EXCEPT !.processed = TRUE, !.is_suggestion = Some(FALSE)]
         ELSE entry

\* The positive UPDATE also storing the service's confidence as the score.
MarkWithOwnConfidence(entry, results, msg_id) ==
    IF msg_id \in DOMAIN results /\ results[msg_id].v = "pos"
    THEN [entry EXCEPT !.processed = TRUE,
                       !.is_suggestion = Some(TRUE),
                       !.similarity = results[msg_id].confidence,
                       !.extracted_activity = results[msg_id].activity,
                       !.extracted_location = results[msg_id].location]
    ELSE [entry EXCEPT !.processed = TRUE,
                       !.is_suggestion = Some(FALSE)]

\* The UPDATE of llm_candidates for one message of a batch.
MarkProcessed(entry, results, msg_id) ==
    IF msg_id \in DOMAIN results /\ results[msg_id].v = "pos"
    THEN [entry EXCEPT !.processed = TRUE,
                       !.is_suggestion = Some(TRUE),
                       !.extracted_activity = results[msg_id].activity,
                       !.extracted_location = results[msg_id].location]
    ELSE [entry EXCEPT !.processed = TRUE,
                       !.is_suggestion = Some(FALSE)]

IsSuggestion(results, msg_id) ==
    msg_id \in DOMAIN results /\ results[msg_id].v = "pos"

\* The body of the batch loop: request, then one UPDATE per message, commit.
ApplyBatch(queue, batch, outcome) ==
    LET results == classify_batch(outcome)
    IN  [m \in DOMAIN queue |->
           IF m \in Range(batch) THEN MarkProcessed(queue[m], results, m)
           ELSE queue[m]]

\* The batch loop from batch b on.  run.n counts the requests made; a batch
\* whose reply makes the loop raise ends the run with nothing of that batch
\* written and no return value.
RECURSIVE RunBatches(_, _, _, _)
RunBatches(run, batches, outcomes, b) ==
    IF b > Len(batches) THEN run
    ELSE IF Raises(outcomes[b])
         THEN [run EXCEPT !.n = b, !.raised = TRUE]
         ELSE LET results == classify_batch(outcomes[b])
                  found == { m \in Range(batches[b]) : IsSuggestion(results, m) }
              IN  RunBatches(
                    [ queue |-> ApplyBatch(run.queue, batches[b], outcomes[b]),
                      n |-> b,
                      processed |-> run.processed + Len(batches[b]),
                      suggestions |-> run.suggestions + Cardinality(found),
                      raised |-> FALSE ],
                    batches, outcomes, b + 1)

ClassifyAll(kinds, verdicts) ==
    \E candidates \in SelectUnprocessed(llm_candidates) :
        \E outcomes \in OutcomeVectors(Batches(candidates), kinds, verdicts) :
            LET start == [ queue |-> llm_candidates, n |-> 0, processed |-> 0,
                           suggestions |-> 0, raised |-> FALSE ]
                run == RunBatches(start, Batches(candidates), outcomes, 1)
            IN  /\ llm_candidates' = run.queue
                /\ sent' = SubSeq(Batches(candidates), 1, run.n)
                /\ replies' = SubSeq(outcomes, 1, run.n)
                /\ stats' = IF run.raised THEN NULL
                            ELSE Some([ processed |-> run.processed,
                                        suggestions |-> run.suggestions ])
                /\ lastOp' = "classify"
                /\ UNCHANGED << suggestions, urls_resolved >>
                /\ UNCHANGED other_vars

----------------------------------------------------------------------------
\* merge_suggestions

\* The SELECT with WHERE processed = TRUE in place of is_suggestion = TRUE.
ProcessedEntries(queue) == { m \in DOMAIN queue : queue[m].processed }

\* SELECT ... FROM llm_candidates WHERE is_suggestion = TRUE
LlmSuggestions(queue) == { m \in DOMAIN queue : queue[m].is_suggestion = Some(TRUE) }

\* The rows of a table for one message id, and their number.
RowsFor(table, m) ==
    LET rows == { r \in BagToSet(table) : r.message_id = m }
    IN  [r \in rows |-> CopiesIn(r, table)]

RowCount(table, m) == BagCardinality(RowsFor(table, m))

Existing(table, message_id) ==
    \E r \in BagToSet(table) : r.message_id = message_id

\* The UPDATE writing the similarity over the stored confidence.
MergedRowOverwrite(r, s) ==
    [r EXCEPT !.extracted_activity = Coalesce(@, s.extracted_activity),
              !.location_text = Coalesce(@, s.extracted_location),
              !.confidence = s.similarity]

\* The UPDATE with the arguments of COALESCE swapped.
MergedRowClobber(r, s) ==
    [r EXCEPT !.extracted_activity = Coalesce(s.extracted_activity, @),
              !.location_text = Coalesce(s.extracted_location, @),
              !.confidence = Max(@, s.similarity)]

\* The UPDATE of an existing row.
MergedRow(r, s) ==
    [r EXCEPT !.extracted_activity = Coalesce(@, s.extracted_activity),
              !.location_text = Coalesce(@, s.extracted_location),
              !.confidence = Max(@, s.similarity)]

\* The INSERT of a new row.
InsertedRow(message_id, s) ==
    [ message_id |-> message_id,
      suggestion_type |-> "llm",
      confidence |-> s.similarity,
      extracted_activity |-> s.extracted_activity,
      location_text |-> s.extracted_location,
      latitude |-> NULL,
      longitude |-> NULL,
      status |-> "pending" ]

\* The loop without the look-up of an existing row: always INSERT.
MergeOneInsert(table, message_id, s) ==
    table (+) SetToBag({ InsertedRow(message_id, s) })

\* The loop replacing an existing row by nothing.
MergeOneDropExisting(table, message_id, s) ==
    IF Existing(table, message_id)
    THEN table (-) RowsFor(table, message_id)
    ELSE table (+) SetToBag({ InsertedRow(message_id, s) })

\* One turn of the loop over llm_suggestions.
MergeOne(table, message_id, s) ==
    IF Existing(table, message_id)
    THEN BagOfAll(LAMBDA r : IF r.message_id = message_id THEN MergedRow(r, s) ELSE r,
                  table)
    ELSE table (+) SetToBag({ InsertedRow(message_id, s) })

\* The loop, in the rowid order of llm_candidates.
RECURSIVE MergeAll(_, _, _)
MergeAll(table, queue, ids) ==
    IF ids = {} THEN table
    ELSE LET m == CHOOSE x \in ids : \A y \in ids : x <= y
         IN  MergeAll(MergeOne(table, m, queue[m]), queue, ids \ {m})

merge_suggestions ==
    /\ suggestions' = MergeAll(suggestions, llm_candidates, LlmSuggestions(llm_candidates))
    /\ lastOp' = "merge"
    /\ NoRun
    /\ UNCHANGED << llm_candidates, urls_resolved >>
    /\ UNCHANGED other_vars

----------------------------------------------------------------------------
\* The pipeline with every outcome of the judgment service.
save_candidates == SaveCandidates(Similarities)

classify_all_candidates == ClassifyAll(ReplyKinds, Verdicts)

Next ==
    \/ store_suggestions
    \/ save_candidates
    \/ classify_all_candidates
    \/ merge_suggestions

Spec == Init /\ [][Next]_vars

----------------------------------------------------------------------------
\* The geocoding collaborators that write coordinates back to suggestions.

\* What a geocoding or URL resolution finds: coordinates, with or without a
\* place name (formatted_address, place_name, title).
GeoResults ==
    { [lat |-> Some(-3695), lng |-> Some(17447), place |-> p] :
        p \in { NULL, Some("Piha 0772, New Zealand") } }

\* geocode_suggestions: its SELECT, and per selected row either no result
\* or the UPDATE ... WHERE id = ?.
NeedsGeocoding(r) ==
    /\ r.latitude = NULL
    /\ (r.location_text # NULL \/ r.extracted_activity # NULL)

GeocodedRow(r, result) ==
    [r EXCEPT !.latitude = result.lat,
              !.longitude = result.lng,
              !.location_text = Coalesce(@, result.place)]

geocode_suggestions ==
    LET selected == { r \in BagToSet(suggestions) : NeedsGeocoding(r) }
    IN  \E found \in [selected -> GeoResults \cup { NULL }] :
            /\ suggestions' =
                  BagOfAll(LAMBDA r : IF r \in selected /\ found[r] # NULL
                                      THEN GeocodedRow(r, found[r]) ELSE r,
                           suggestions)
            /\ lastOp' = "geocode"
            /\ NoRun
            /\ UNCHANGED << llm_candidates, urls_resolved >>
            /\ UNCHANGED other_vars

\* update_suggestion_coords: UPDATE ... WHERE message_id = ?
UpdatedCoordsRow(r, result) ==
    [r EXCEPT !.latitude = result.lat,
              !.longitude = result.lng,
              !.location_text = Coalesce(@, result.place)]

\* url_resolver.main: every url without a resolved_url is resolved; the
\* google_maps ones that yield coordinates are written back.
resolve_urls ==
    LET pending == GoogleMapsMsgs \ urls_resolved
    IN  \E found \in [pending -> GeoResults \cup { NULL }] :
            /\ suggestions' =
                  BagOfAll(LAMBDA r : IF r.message_id \in pending
                                         /\ found[r.message_id] # NULL
                                      THEN UpdatedCoordsRow(r, found[r.message_id])
                                      ELSE r,
                           suggestions)
            /\ urls_resolved' = urls_resolved \cup pending
            /\ lastOp' = "resolve_urls"
            /\ NoRun
            /\ UNCHANGED llm_candidates
            /\ UNCHANGED other_vars

\* process_google_maps_urls: UPDATE ... SET location_text =
\* COALESCE(?, location_text) WHERE message_id = ?
MapsRow(r, result) ==
    [r EXCEPT !.latitude = result.lat,
              !.longitude = result.lng,
              !.location_text = Coalesce(result.place, @)]

process_google_maps_urls ==
    \E found \in [GoogleMapsMsgs -> GeoResults \cup { NULL }] :
        /\ suggestions' =
              BagOfAll(LAMBDA r : IF r.message_id \in GoogleMapsMsgs
                                     /\ found[r.message_id] # NULL
                                  THEN MapsRow(r, found[r.message_id])
                                  ELSE r,
                       suggestions)
        /\ urls_resolved' = urls_resolved \cup GoogleMapsMsgs
        /\ lastOp' = "maps"
        /\ NoRun
        /\ UNCHANGED llm_candidates
        /\ UNCHANGED other_vars

\* The pipeline with the geocoding collaborators, the judgment service
\* answering every request with a list.
NextGeo ==
    \/ store_suggestions
    \/ SaveCandidates({ 80 })
    \/ ClassifyAll({ "list" }, Verdicts)
    \/ merge_suggestions
    \/ geocode_suggestions
    \/ resolve_urls
    \/ process_google_maps_urls

SpecGeo == Init /\ [][NextGeo]_vars

\* The semantic and classification stages alone: the candidate queue under
\* every outcome of the judgment service.
NextQueue ==
    \/ save_candidates
    \/ classify_all_candidates

SpecQueue == Init /\ [][NextQueue]_vars

----------------------------------------------------------------------------
\* The first pass (suggestion_extractor.py): the regular expressions of the
\* rule table are matched on the text itself, character by character.

\* \w of re for the ASCII texts used here.
WordChars ==
    { "a", "b", "c", "d", "e", "f", "g", "h", "i", "j", "k", "l", "m", "n",
      "o", "p", "q", "r", "s", "t", "u", "v", "w", "x", "y", "z",
      "A", "B", "C", "D", "E", "F", "G", "H", "I", "J", "K", "L", "M", "N",
      "O", "P", "Q", "R", "S", "T", "U", "V", "W", "X", "Y", "Z",
      "0", "1", "2", "3", "4", "5", "6", "7", "8", "9", "_" }

UpperToLower ==
    [ A |-> "a", B |-> "b", C |-> "c", D |-> "d", E |-> "e", F |-> "f",
      G |-> "g", H |-> "h", I |-> "i", J |-> "j", K |-> "k", L |-> "l",
      M |-> "m", N |-> "n", O |-> "o", P |-> "p", Q |-> "q", R |-> "r",
      S |-> "s", T |-> "t", U |-> "u", V |-> "v", W |-> "w", X |-> "x",
      Y |-> "y", Z |-> "z" ]

LowerChar(c) == IF c \in DOMAIN UpperToLower THEN UpperToLower[c] ELSE c

\* content.lower(); re.IGNORECASE is matching the lower-case patterns on it.
RECURSIVE Lower(_)
Lower(text) ==
    IF text = "" THEN ""
    ELSE LowerChar(SubSeq(text, 1, 1)) \o Lower(SubSeq(text, 2, Len(text)))

IsWordAt(text, i) == i \in 1 .. Len(text) /\ SubSeq(text, i, i) \in WordChars

\* \b just before the character at position i (i = Len(text) + 1: the end).
WordBoundary(text, i) == IsWordAt(text, i - 1) # IsWordAt(text, i)

LiteralAt(text, i, literal) ==
    /\ i + Len(literal) - 1 <= Len(text)
    /\ SubSeq(text, i, i + Len(literal) - 1) = literal

\* "phrase" in content_lower
Contains(text, phrase) == \E i \in 1 .. Len(text) : LiteralAt(text, i, phrase)

\* . of re: any character but a newline.
NoNewline(text, from, to) ==
    \A k \in from .. to : SubSeq(text, k, k) # "\n"

\* One alternative of a rule, \b<literal>\b(?!<not_after>)(.*\b(<later>)\b)? :
\* the literal between word boundaries, none of not_after right behind it,
\* and, when later is not empty, one of its words further on in the line.
AltMatches(text, alt) ==
    \E i \in 1 .. Len(text) :
        LET end == i + Len(alt.literal)
        IN  /\ WordBoundary(text, i)
            /\ LiteralAt(text, i, alt.literal)
            /\ WordBoundary(text, end)
            /\ \A n \in alt.not_after : ~LiteralAt(text, end, n)
            /\ \/ alt.later = {}
               \/ \E j \in end .. Len(text), w \in alt.later :
                     /\ NoNewline(text, end, j - 1)
                     /\ WordBoundary(text, j)
                     /\ LiteralAt(text, j, w)
                     /\ WordBoundary(text, j + Len(w))

\* pattern.search(content) for a pattern compiled with re.IGNORECASE
Search(alts, content) ==
    LET text == Lower(content)
    IN  \E alt \in alts : AltMatches(text, alt)

Phrases(literals, not_after, later) ==
    { [ literal |-> l, not_after |-> not_after, later |-> later ] : l \in literals }

Words(literals) == Phrases(literals, {}, {})

SuggestionPattern(name, alts, confidence) ==
    [ name |-> name, pattern |-> alts, confidence |-> confidence ]

SUGGESTION_PATTERNS ==
    << SuggestionPattern("we_should",
         Phrases({ "we should" }, { " not", " stop", " avoid" }, {}), 90),
       SuggestionPattern("lets_go",
         Phrases({ "let's go", "lets go" }, { " home", " back", " now" }, {}), 85),
       SuggestionPattern("lets_try", Words({ "let's try", "lets try" }), 85),
       SuggestionPattern("wanna_go", Words({ "wanna go", "want to go" }), 85),
       SuggestionPattern("should_we",
         Phrases({ "should we" }, { " not", " stop" }, {}), 80),
       SuggestionPattern("we_could",
         Phrases({ "we could" }, { " not", " never" }, {}), 70),
       SuggestionPattern("i_want_to",
         Phrases({ "i want to" }, { " die", " cry", " leave" }, {}), 60),
       SuggestionPattern("we_need_to",
         Phrases({ "we need to" }, { " stop", " avoid" }, {}), 60),
       SuggestionPattern("bucket_list", Words({ "bucket list", "bucketlist" }), 95),
       SuggestionPattern("must_visit",
         Words({ "must visit", "must go", "have to visit" }), 90),
       SuggestionPattern("would_be_fun",
         Words({ "would be fun", "would be cool", "would be nice" }), 75),
       SuggestionPattern("one_day",
         Phrases({ "one day" }, {}, { "go", "visit", "try", "do", "see" }), 70),
       SuggestionPattern("next_time",
         Phrases({ "next time" }, {},
                 { "go", "visit", "try", "do", "see", "should" }), 70),
       SuggestionPattern("lets_do", Words({ "let's do", "lets do" }), 80),
       SuggestionPattern("come_back",
         Phrases({ "come back" }, {}, { "and", "to" }), 65),
       SuggestionPattern("looks_fun",
         Words({ "look fun", "look amazing", "look awesome", "look incredible",
                 "look beautiful", "looks fun", "looks amazing",
                 "looks awesome", "looks incredible", "looks beautiful" }), 50),
       SuggestionPattern("can_we",
         Phrases({ "can we" }, {}, { "go", "try", "do", "visit", "see" }), 75) >>

ACTIVITY_KEYWORDS ==
    { "restaurant", "cafe", "coffee", "bar", "pub", "brewery", "winery",
      "vineyard", "beach", "lake", "river", "waterfall", "hot spring",
      "hot springs", "pool", "hike", "walk", "trail", "track", "trek",
      "mountain", "hill", "volcano", "summit", "peak", "park", "garden",
      "reserve", "sanctuary", "forest", "museum", "gallery", "exhibition",
      "art", "market", "farmers market", "night market", "concert", "show",
      "theatre", "movie", "cinema", "festival", "event", "hotel", "airbnb",
      "bach", "accommodation", "camping", "glamping", "kayak", "paddleboard",
      "surf", "dive", "snorkel", "swim", "ski", "snowboard", "bungy",
      "skydive", "zipline", "tour", "cruise", "trip", "getaway", "holiday",
      "vacation", "road trip", "rotorua", "queenstown", "wellington", "taupo",
      "coromandel", "bay of islands", "auckland", "waiheke", "matakana",
      "piha", "muriwai", "raglan", "hobbiton", "milford", "waitomo",
      "tongariro" }

ACTIVITY_PATTERN == Words(ACTIVITY_KEYWORDS)

EXCLUDE_PATTERNS ==
    << Words({ "work", "job", "meeting", "email", "call", "pay", "bill", "tax" }),
       Words({ "doctor", "dentist", "hospital", "appointment" }),
       Words({ "groceries", "shopping", "buy", "sell", "order" }),
       Words({ "clean", "laundry", "dishes", "vacuum" }),
       Words({ "should not", "shouldn't", "can't", "cannot" }) >>

has_activity_keyword(content) == Search(ACTIVITY_PATTERN, content)

should_exclude(content) ==
    \E p \in DOMAIN EXCLUDE_PATTERNS : Search(EXCLUDE_PATTERNS[p], content)

\* for pattern in SUGGESTION_PATTERNS: if pattern.pattern.search(content)
RulesMatching(content) ==
    { r \in DOMAIN SUGGESTION_PATTERNS :
        Search(SUGGESTION_PATTERNS[r].pattern, content) }

\* Texts with the urls rows parser.store_messages derives from them.
Link(url, url_type) == [ url |-> url, url_type |-> url_type ]

Message(content, urls) == [ content |-> content, urls |-> urls ]

FirstPassRows ==
    { Message("We should try that new hiking trail at Coromandel!", << >>),
      Message("groceries and we should go", << >>),
      Message("we should add it to the bucket list", << >>),
      Message("let's go home", << >>),
      Message("I want to swim", << >>),
      Message("bucket list: Tongariro", << >>),
      Message("dinner was nice", << >>),
      Message("", << >>),
      Message("image omitted", << >>),
      Message("we could go here https://maps.app.goo.gl/abc",
              << Link("https://maps.app.goo.gl/abc", "google_maps") >>),
      Message("check this out https://www.eventfinda.co.nz/x https://www.airbnb.com/rooms/1",
              << Link("https://www.eventfinda.co.nz/x", "event"),
                 Link("https://www.airbnb.com/rooms/1", "airbnb") >>),
      Message("https://vt.tiktok.com/abc",
              << Link("https://vt.tiktok.com/abc", "tiktok") >>),
      Message("this looks fun https://vt.tiktok.com/abc",
              << Link("https://vt.tiktok.com/abc", "tiktok") >>),
      Message("https://maps.app.goo.gl/abc https://goo.gl/maps/xyz",
              << Link("https://maps.app.goo.gl/abc", "google_maps"),
                 Link("https://goo.gl/maps/xyz", "google_maps") >>) }

\* Every text a messages table of this module holds.
Texts == { row.content : row \in FirstPassRows } \cup { Corpus[i] : i \in DOMAIN Corpus }

\* The searches of the two scorers on each text, made once per text.
Scans ==
    [ content \in Texts |->
        [ should_exclude |-> should_exclude(content),
          has_activity_keyword |-> has_activity_keyword(content),
          rules |-> RulesMatching(content),
          lower |-> Lower(content) ] ]

Excluded(content) == Scans[content].should_exclude

HasKeyword(content) == Scans[content].has_activity_keyword

MatchingRules(content) == Scans[content].rules

\* confidence + 0.15 of find_suggestions_regex, in hundredths.
ACTIVITY_BOOST == 15

\* The boost without min(1.0, ...).
BoostedUncapped(confidence, content) ==
    IF HasKeyword(content) THEN confidence + ACTIVITY_BOOST
    ELSE confidence

Boosted(confidence, content) ==
    IF HasKeyword(content) THEN Min(100, confidence + ACTIVITY_BOOST)
    ELSE confidence

\* The matching rule of the highest base confidence in place of the first.
BestRule(content) ==
    CHOOSE r \in MatchingRules(content) :
        \A q \in MatchingRules(content) :
            SUGGESTION_PATTERNS[q].confidence <= SUGGESTION_PATTERNS[r].confidence

\* for pattern in SUGGESTION_PATTERNS: if pattern.pattern.search(content):
\* ... break
FirstRule(content) ==
    CHOOSE r \in MatchingRules(content) : \A q \in MatchingRules(content) : r <= q

\* The loop body without the exclusion check.
RegexCandidatesUnfiltered(msg_id, content) ==
    IF MatchingRules(content) = {} THEN << >>
    ELSE LET rule == SUGGESTION_PATTERNS[FirstRule(content)]
         IN  << [ message_id |-> msg_id,
                  suggestion_type |-> "regex:" \o rule.name,
                  confidence |-> Boosted(rule.confidence, content) ] >>

\* The body of the loop of find_suggestions_regex for one row: the
\* candidates it appends.
RegexCandidates(msg_id, content) ==
    IF Excluded(content) \/ MatchingRules(content) = {} THEN << >>
    ELSE LET rule == SUGGESTION_PATTERNS[FirstRule(content)]
         IN  << [ message_id |-> msg_id,
                  suggestion_type |-> "regex:" \o rule.name,
                  confidence |-> Boosted(rule.confidence, content) ] >>

\* find_suggestions_regex: SELECT ... FROM messages WHERE content != '',
\* the rows taken by ascending id, from message m on.
RECURSIVE RegexFrom(_)
RegexFrom(m) ==
    IF m \notin DOMAIN messages THEN << >>
    ELSE (IF Content(m) = "" THEN << >> ELSE RegexCandidates(m, Content(m)))
            \o RegexFrom(m + 1)

find_suggestions_regex == RegexFrom(1)

\* The WHERE clause of find_url_suggestions on one row of messages JOIN urls.
Qualifies(content, u) ==
    \/ u.url_type \in { "google_maps", "airbnb", "booking", "tripadvisor", "event" }
    \/ (u.url_type = "tiktok" /\ content # u.url)
    \/ (u.url_type = "youtube" /\ content # u.url)

confidence_map ==
    [ google_maps |-> 70, airbnb |-> 80, booking |-> 80, tripadvisor |-> 75,
      event |-> 85, tiktok |-> 50, youtube |-> 40 ]

URL_PHRASES ==
    { "let's go", "we should", "wanna go", "want to go", "should we",
      "check this out", "look at this", "this looks", "bucket list" }

\* confidence + 0.25 and confidence + 0.1 of find_url_suggestions.
PHRASE_BOOST == 25
KEYWORD_BOOST == 10

UrlConfidence(content, url_type) ==
    LET base == confidence_map[url_type]
        phrased == IF \E phrase \in URL_PHRASES : Contains(Scans[content].lower, phrase)
                   THEN Min(100, base + PHRASE_BOOST) ELSE base
    IN  IF HasKeyword(content) THEN Min(100, phrased + KEYWORD_BOOST)
        ELSE phrased

\* The candidates of the joined rows of one message, from its link i on.
RECURSIVE UrlCandidates(_, _, _)
UrlCandidates(msg_id, row, i) ==
    IF i > Len(row.urls) THEN << >>
    ELSE (IF Qualifies(row.content, row.urls[i])
          THEN << [ message_id |-> msg_id,
                    suggestion_type |-> "url:" \o row.urls[i].url_type,
                    confidence |-> UrlConfidence(row.content, row.urls[i].url_type) ] >>
          ELSE << >>)
            \o UrlCandidates(msg_id, row, i + 1)

RECURSIVE UrlFrom(_)
UrlFrom(m) ==
    IF m \notin DOMAIN messages THEN << >>
    ELSE UrlCandidates(m, messages[m], 1) \o UrlFrom(m + 1)

\* find_url_suggestions: its SELECT has no ORDER BY, so the joined rows,
\* and with them the candidates, come in any order.
find_url_suggestions ==
    LET rows == UrlFrom(1)
    IN  { [ i \in DOMAIN rows |-> rows[p[i]] ] : p \in Permutations(DOMAIN rows) }

\* main of suggestion_extractor.py: both scorers, then store_suggestions on
\* the regex candidates followed by the url candidates.
extract_suggestions ==
    \E url_suggestions \in find_url_suggestions :
    LET regex_suggestions == find_suggestions_regex
        all_suggestions == regex_suggestions \o url_suggestions
    IN  /\ suggestions' = StoreRows(all_suggestions)
        /\ first_pass' = [ regex |-> regex_suggestions, url |-> url_suggestions ]
        /\ lastOp' = "first_pass"
        /\ NoRun
        /\ UNCHANGED << llm_candidates, urls_resolved, cosine, messages, embeddings,
                        embed_run, searches, classify_run >>

InitFirstPass ==
    /\ InitTables
    /\ messages \in [ MsgIds -> FirstPassRows ]
    /\ cosine = NULL

NextFirstPass == extract_suggestions

SpecFirstPass == InitFirstPass /\ [][NextFirstPass]_vars

----------------------------------------------------------------------------
\* The semantic stage in full (src/embeddings.py): embed_all_messages, then
\* find_activity_candidates, then the queue is cleared and repopulated.

\* The number of messages with usable text in the table of this stage.
MaxEligible == 3

\* BATCH_SIZE of embeddings.py, scaled down from 100.
EMBED_BATCH_SIZE == 2

\* top_k = 200 and min_similarity = 0.25 of the seed searches, top_k = 500
\* of the candidate list; the cut-offs scaled down to the tables used here.
SEARCH_TOP_K == 2
MIN_SIMILARITY == 25
CANDIDATE_TOP_K == 3

\* Two of the seed queries of find_activity_candidates.
SeedQueries ==
    << "we should go visit this place together",
       "hiking trail walk nature reserve" >>

\* Embeddings the provider may return, in two dimensions and without
\* negative components.
Vectors == { << 1, 0 >>, << 2, 1 >> }

QueryVectors == { << 1, 0 >>, << 0, 1 >> }

SemanticTexts ==
    << "We should try that new hiking trail at Coromandel!",
       "I want to swim",
       "dinner was nice" >>

\* A messages table with an empty message (id 2) and a media placeholder
\* (id 4) among texts.
SemanticTable ==
    [ m \in 1 .. MaxEligible + 2 |->
        Message(IF m = 2 THEN ""
                ELSE IF m = 4 THEN "image omitted"
                ELSE SemanticTexts[(m % Len(SemanticTexts)) + 1],
                << >>) ]

\* The ascending listing of a set of message ids.
RECURSIVE Ascending(_)
Ascending(ids) ==
    IF ids = {} THEN << >>
    ELSE LET first == CHOOSE x \in ids : \A y \in ids : x <= y
         IN  << first >> \o Ascending(ids \ { first })

\* MEDIA_PATTERNS of parser.py, matched without regard to case.
MEDIA_PATTERNS ==
    { "image omitted", "video omitted", "audio omitted", "gif omitted",
      "sticker omitted", "document omitted", "contact card omitted" }

detect_media_type(content) == Scans[content].lower \in MEDIA_PATTERNS

\* m.content LIKE '%omitted%', which SQLite decides without regard to case,
\* for each text.
LikeOmitted == [ content \in Texts |-> Contains(Lower(content), "omitted") ]

\* Every selection that ignores whether and what text a message has.
SelectToEmbedAnyText(table, stored) ==
    { m \in DOMAIN table : m \notin DOMAIN stored }

\* SELECT m.id, m.content FROM messages m LEFT JOIN embeddings e ...
\* WHERE e.message_id IS NULL AND m.content != ''
\*   AND m.content NOT LIKE '%omitted%'
SelectToEmbed(table, stored) ==
    { m \in DOMAIN table :
        /\ m \notin DOMAIN stored
        /\ table[m].content # ""
        /\ ~LikeOmitted[table[m].content] }

\* ORDER BY m.id, then messages[i:i + BATCH_SIZE]
EmbedBatches(ids) ==
    LET ordered == Ascending(ids)
        n == (Len(ordered) + EMBED_BATCH_SIZE - 1) \div EMBED_BATCH_SIZE
    IN  [ b \in 1 .. n |->
            SubSeq(ordered, (b - 1) * EMBED_BATCH_SIZE + 1,
                   Min(b * EMBED_BATCH_SIZE, Len(ordered))) ]

\* What the provider does for one batch: the batch call answers with one
\* vector per text, or it raises and each single call answers or raises (NULL).
EmbedOutcomes(batch) ==
    { [ batch_ok |-> TRUE, vector |-> f ] : f \in [Range(batch) -> Vectors] }
    \cup { [ batch_ok |-> FALSE, vector |-> f ] :
             f \in [Range(batch) -> Vectors \cup { NULL }] }

RECURSIVE EmbedOutcomeVectors(_)
EmbedOutcomeVectors(batches) ==
    IF batches = << >> THEN { << >> }
    ELSE { << o >> \o rest : o \in EmbedOutcomes(Head(batches)),
                             rest \in EmbedOutcomeVectors(Tail(batches)) }

\* INSERT INTO embeddings (message_id, embedding): message_id is the
\* primary key, a second row of a message id is refused.
InsertEmbedding(stored, m, vector) ==
    IF m \in DOMAIN stored THEN stored
    ELSE [ x \in DOMAIN stored \cup { m } |-> IF x = m THEN vector ELSE stored[x] ]

RECURSIVE InsertAll(_, _, _)
InsertAll(stored, ids, vector) ==
    IF ids = << >> THEN stored
    ELSE InsertAll(
           IF vector[Head(ids)] = NULL THEN stored
           ELSE InsertEmbedding(stored, Head(ids), vector[Head(ids)]),
           Tail(ids), vector)

\* A failed batch call that is logged and not retried.
SkipFailedBatch(stored, batch, outcome) ==
    IF outcome.batch_ok THEN InsertAll(stored, batch, outcome.vector) ELSE stored

\* The body of the batch loop: the rows of the batch call, or after its
\* failure the rows of the single calls that answered.
EmbedBatch(stored, batch, outcome) == InsertAll(stored, batch, outcome.vector)

RECURSIVE EmbedFrom(_, _, _, _)
EmbedFrom(stored, batches, outcomes, b) ==
    IF b > Len(batches) THEN stored
    ELSE EmbedFrom(EmbedBatch(stored, batches[b], outcomes[b]),
                   batches, outcomes, b + 1)

\* The provider calls of a run, batch by batch.
EmbedLog(batches, outcomes) ==
    [ b \in DOMAIN batches |->
        [ ids |-> batches[b],
          batch_ok |-> outcomes[b].batch_ok,
          vector |-> outcomes[b].vector ] ]

\* cosine_similarity in hundredths, rounded down, of vectors without
\* negative components.
Dot(a, b) == a[1] * b[1] + a[2] * b[2]

\* dot_product / (norm_a * norm_b): Python raises ZeroDivisionError on a
\* zero divisor, which NULL stands for.
Quotient(a, b) ==
    IF Dot(a, a) * Dot(b, b) = 0 THEN NULL
    ELSE Some(CHOOSE c \in 0 .. 100 :
                /\ c * c * Dot(a, a) * Dot(b, b) <= 10000 * Dot(a, b) * Dot(a, b)
                /\ \/ c = 100
                   \/ (c + 1) * (c + 1) * Dot(a, a) * Dot(b, b)
                         > 10000 * Dot(a, b) * Dot(a, b))

\* The function without its test of the norms.
CosineUnguarded(a, b) == Quotient(a, b)

\* What a call returns, Some(similarity), or NULL when it raises.
cosine_similarity(a, b) ==
    IF Dot(a, a) = 0 \/ Dot(b, b) = 0 THEN Some(0)
    ELSE Quotient(a, b)

\* The similarity of each query embedding to each stored embedding.
Similarity ==
    [ a \in QueryVectors, b \in Vectors |-> cosine_similarity(a, b)[1] ]

\* cosine_similarity on its own, on every pair of vectors with components
\* up to MaxComponent, the zero vector among them.
MaxComponent == 3

TestVectors == { << x, y >> : x, y \in 0 .. MaxComponent }

call_cosine_similarity ==
    \E a, b \in TestVectors :
        /\ cosine' = [ a |-> a, b |-> b, result |-> cosine_similarity(a, b) ]
        /\ lastOp' = "cosine"
        /\ UNCHANGED << suggestions, llm_candidates, sent, replies, stats,
                        urls_resolved, messages, first_pass, embeddings,
                        embed_run, searches, classify_run >>

InitCosine ==
    /\ InitTables
    /\ messages = << >>
    /\ cosine = NULL

NextCosine == call_cosine_similarity

SpecCosine == InitCosine /\ [][NextCosine]_vars

\* The orders results.sort(key = similarity, reverse = True) can leave a
\* set of rows in: the rows come from a SELECT without ORDER BY.
SortedOrders(ids, score) ==
    LET n == Cardinality(ids)
    IN  { c \in [1 .. n -> ids] :
            /\ \A i, j \in 1 .. n : i # j => c[i] # c[j]
            /\ \A i \in 1 .. n - 1 : score[c[i]] >= score[c[i + 1]] }

\* semantic_search: the rows at or above min_similarity, sorted, cut at top_k.
semantic_search(stored, query_embedding) ==
    LET similarity == [ m \in DOMAIN stored |->
                          Similarity[query_embedding, stored[m]] ]
        results == { m \in DOMAIN stored : similarity[m] >= MIN_SIMILARITY }
    IN  { [ i \in 1 .. Min(SEARCH_TOP_K, Len(order)) |->
              [ message_id |-> order[i], similarity |-> similarity[order[i]] ] ] :
          order \in SortedOrders(results, similarity) }

\* The aggregation keeping the lowest similarity seen.
RECURSIVE KeepLowest(_, _)
KeepLowest(all_results, results) ==
    IF results = << >> THEN all_results
    ELSE LET r == Head(results)
             msg_id == r.message_id
         IN  KeepLowest(
               IF msg_id \notin DOMAIN all_results
                  \/ r.similarity < all_results[msg_id]
               THEN [ m \in DOMAIN all_results \cup { msg_id } |->
                        IF m = msg_id THEN r.similarity ELSE all_results[m] ]
               ELSE all_results,
               Tail(results))

\* for r in results: if msg_id not in all_results or r["similarity"] >
\* all_results[msg_id]["similarity"]: all_results[msg_id] = r
RECURSIVE KeepHighest(_, _)
KeepHighest(all_results, results) ==
    IF results = << >> THEN all_results
    ELSE LET r == Head(results)
             msg_id == r.message_id
         IN  KeepHighest(
               IF msg_id \notin DOMAIN all_results
                  \/ r.similarity > all_results[msg_id]
               THEN [ m \in DOMAIN all_results \cup { msg_id } |->
                        IF m = msg_id THEN r.similarity ELSE all_results[m] ]
               ELSE all_results,
               Tail(results))

\* The loop over the seed queries, from query q on.
RECURSIVE Aggregate(_, _, _)
Aggregate(all_results, found, q) ==
    IF q > Len(found) THEN all_results
    ELSE Aggregate(KeepHighest(all_results, found[q]), found, q + 1)

\* sorted(all_results.values(), ...)[:top_k]
TopCandidates(all_results) ==
    { [ m \in { order[i] : i \in 1 .. Min(CANDIDATE_TOP_K, Len(order)) } |->
          all_results[m] ] :
      order \in SortedOrders(DOMAIN all_results, all_results) }

\* The results the searches of one run can return, query by query.
RECURSIVE SearchRuns(_, _)
SearchRuns(stored, query_embeddings) ==
    IF query_embeddings = << >> THEN { << >> }
    ELSE { << results >> \o rest :
             results \in semantic_search(stored, Head(query_embeddings)),
             rest \in SearchRuns(stored, Tail(query_embeddings)) }

\* The searches made when get_embedding raises for seed query q: those
\* before q returned, the one of q has no query embedding and no result.
FailedAt(query_embeddings, results, q) ==
    [ p \in 1 .. q |->
        IF p = q THEN [ query_embedding |-> NULL, results |-> << >> ]
        ELSE [ query_embedding |-> query_embeddings[p], results |-> results[p] ] ]

\* main of embeddings.py.  The provider embeds every seed query and the
\* queue is cleared and filled, or it fails for one: get_embedding is
\* called outside any try, the exception leaves semantic_search,
\* find_activity_candidates and main, and the queue is not touched.
semantic_main ==
    LET batches == EmbedBatches(SelectToEmbed(messages, embeddings))
    IN  \E outcomes \in EmbedOutcomeVectors(batches) :
        \E query_embeddings \in [ DOMAIN SeedQueries -> QueryVectors ] :
            LET stored == EmbedFrom(embeddings, batches, outcomes, 1)
            IN  \E results \in SearchRuns(stored, query_embeddings) :
                /\ embeddings' = stored
                /\ embed_run' = EmbedLog(batches, outcomes)
                /\ NoRun
                /\ UNCHANGED << suggestions, urls_resolved, cosine, messages,
                                first_pass, classify_run >>
                /\ \/ \E candidates \in TopCandidates(Aggregate(<< >>, results, 1)) :
                         /\ searches' = [ q \in DOMAIN SeedQueries |->
                                            [ query_embedding |-> query_embeddings[q],
                                              results |-> results[q] ] ]
                         /\ llm_candidates' = SavedQueue(candidates)
                         /\ lastOp' = "semantic"
                   \/ \E q \in DOMAIN SeedQueries :
                         /\ searches' = FailedAt(query_embeddings, results, q)
                         /\ llm_candidates' = llm_candidates
                         /\ lastOp' = "semantic_raised"

InitSemantic ==
    /\ InitTables
    /\ messages = SemanticTable
    /\ cosine = NULL

NextSemantic == semantic_main

SpecSemantic == InitSemantic /\ [][NextSemantic]_vars

----------------------------------------------------------------------------
\* classify_all_candidates step by step: the SELECT, then per batch the
\* request with its UPDATEs in the open transaction, then conn.commit();
\* the process can stop anywhere in between.

\* The number of messages of the table this run works on: one more than a
\* batch holds.
MaxQueue == 3

LoopTable == [ m \in 1 .. MaxQueue |-> CorpusRow(m) ]

\* The semantic stage, run while no classify run is in progress.
save_between_runs ==
    /\ classify_run = NULL
    /\ SaveCandidates(Similarities)

\* The SELECT of the unprocessed entries; without any the function returns
\* its zero counts at once.
start_classify ==
    /\ classify_run = NULL
    /\ \E candidates \in SelectUnprocessed(llm_candidates) :
          /\ classify_run' =
                IF candidates = << >> THEN NULL
                ELSE [ candidates |-> candidates,
                       b |-> 1,
                       at |-> "request",
                       working |-> llm_candidates,
                       processed |-> 0,
                       suggestions |-> 0 ]
          /\ stats' = IF candidates = << >>
                      THEN Some([ processed |-> 0, suggestions |-> 0 ])
                      ELSE NULL
          /\ lastOp' = IF candidates = << >> THEN "classify" ELSE "select"
    /\ sent' = << >>
    /\ replies' = << >>
    /\ UNCHANGED << suggestions, llm_candidates, urls_resolved, cosine, messages,
                    first_pass, embeddings, embed_run, searches >>

\* classify_batch and the UPDATE of every message of the batch, not yet
\* committed; a reply the loop cannot read raises out of the function, and
\* the connection goes away with its open transaction.
request_batch ==
    /\ classify_run # NULL
    /\ classify_run.at = "request"
    /\ classify_run.b <= NumBatches(classify_run.candidates)
    /\ LET batch == Batch(classify_run.candidates, classify_run.b)
       IN  \E outcome \in BatchOutcomes(Range(batch), ReplyKinds, Verdicts) :
              LET results == classify_batch(outcome)
                  positive == { m \in Range(batch) : IsSuggestion(results, m) }
              IN  /\ sent' = Append(sent, batch)
                  /\ replies' = Append(replies, outcome)
                  /\ classify_run' =
                        IF Raises(outcome) THEN NULL
                        ELSE [ classify_run EXCEPT
                                 !.at = "commit",
                                 !.working = ApplyBatch(@, batch, outcome),
                                 !.processed = @ + Len(batch),
                                 !.suggestions = @ + Cardinality(positive) ]
                  /\ lastOp' = IF Raises(outcome) THEN "raised" ELSE "request"
    /\ UNCHANGED << suggestions, llm_candidates, stats, urls_resolved, cosine, messages,
                    first_pass, embeddings, embed_run, searches >>

\* A run that commits nothing.
CommitNothing(committed, working) == committed

\* conn.commit() at the end of the loop body.
Commit(committed, working) == working

commit_batch ==
    /\ classify_run # NULL
    /\ classify_run.at = "commit"
    /\ llm_candidates' = Commit(llm_candidates, classify_run.working)
    /\ classify_run' = [ classify_run EXCEPT !.at = "request", !.b = @ + 1 ]
    /\ lastOp' = "commit"
    /\ UNCHANGED << suggestions, sent, replies, stats, urls_resolved, cosine, messages,
                    first_pass, embeddings, embed_run, searches >>

\* The return after the last batch.
finish_classify ==
    /\ classify_run # NULL
    /\ classify_run.at = "request"
    /\ classify_run.b > NumBatches(classify_run.candidates)
    /\ stats' = Some([ processed |-> classify_run.processed,
                       suggestions |-> classify_run.suggestions ])
    /\ classify_run' = NULL
    /\ lastOp' = "classify"
    /\ UNCHANGED << suggestions, llm_candidates, sent, replies, urls_resolved, cosine,
                    messages, first_pass, embeddings, embed_run, searches >>

\* The process stops: what the open transaction holds is rolled back.
crash ==
    /\ classify_run # NULL
    /\ classify_run' = NULL
    /\ lastOp' = "crash"
    /\ UNCHANGED << suggestions, llm_candidates, sent, replies, stats,
                    urls_resolved, cosine, messages, first_pass, embeddings, embed_run,
                    searches >>

InitLoop ==
    /\ InitTables
    /\ messages = LoopTable
    /\ cosine = NULL

NextLoop ==
    \/ save_between_runs
    \/ start_classify
    \/ request_batch
    \/ commit_batch
    \/ finish_classify
    \/ crash

SpecLoop == InitLoop /\ [][NextLoop]_vars

----------------------------------------------------------------------------
\* The two passes together: main of suggestion_extractor.py on a messages
\* table, the queue, and merge_suggestions, run in any order.

\* A message with a pattern candidate and a link candidate, and two
\* messages with neither.
PipelineTable ==
    << Message("this looks fun https://vt.tiktok.com/abc",
               << Link("https://vt.tiktok.com/abc", "tiktok") >>),
       Message("dinner was nice", << >>),
       Message("let's go home", << >>) >>

InitPipeline ==
    /\ InitTables
    /\ messages = PipelineTable
    /\ cosine = NULL

NextPipeline ==
    \/ extract_suggestions
    \/ SaveCandidates({ 80 })
    \/ ClassifyAll({ "list" }, Verdicts)
    \/ merge_suggestions

SpecPipeline == InitPipeline /\ [][NextPipeline]_vars

----------------------------------------------------------------------------
\* Properties.

\* The queue entries that hold an is-a-suggestion verdict.
PositiveEntries(queue) ==
    { m \in DOMAIN queue : queue[m].is_suggestion = Some(TRUE) }

ReceivedKinds == { "nojson", "badjson", "list" }

PositiveIn(batch, reply) ==
    { m \in Range(batch) : reply.verdict[m].v = "pos" }

\* C1: after any sequence of first-pass stores, merges and geocoding
\* write-backs the suggestions table holds at most one row per message_id.
OneRowPerMessage ==
    \A m \in MsgIds : RowCount(suggestions, m) <= 1

\* A geocoded table that holds a first-pass row and a classifier row.
OneRowPerMessageWitness ==
    /\ lastOp \in { "geocode", "resolve_urls", "maps" }
    /\ \E r \in BagToSet(suggestions) : r.suggestion_type = "llm"
    /\ \E r \in BagToSet(suggestions) :
          r.suggestion_type # "llm" /\ r.latitude # NULL

\* C2: a run of merge_suggestions leaves the confidence of every message id
\* that already has a Suggestion at max(old confidence, similarity of its
\* positive queue entry), and at the old confidence when it has none: no
\* merge lowers a confidence.
MergeTakesMaxConfidence ==
    [][lastOp' = "merge" =>
         \A r \in BagToSet(suggestions) :
            LET m == r.message_id
                new == IF m \in PositiveEntries(llm_candidates)
                       THEN Max(r.confidence, llm_candidates[m].similarity)
                       ELSE r.confidence
            IN  /\ new >= r.confidence
                /\ Existing(suggestions', m)
                /\ \A r2 \in BagToSet(suggestions') :
                      r2.message_id = m => r2.confidence = new]_vars

\* After a merge: a link row raised from 0.7 to the similarity 0.8 and a
\* pattern row kept at 0.9 above the similarity of its positive entry.
MergeTakesMaxConfidenceWitness ==
    /\ lastOp = "merge"
    /\ \E r \in BagToSet(suggestions) :
          /\ r.suggestion_type = "url:google_maps"
          /\ r.confidence = 80
    /\ \E r \in BagToSet(suggestions) :
          /\ r.suggestion_type = "regex:we_should"
          /\ r.message_id \in PositiveEntries(llm_candidates)
          /\ r.confidence > llm_candidates[r.message_id].similarity

\* C3: on a message id that already has a Suggestion merge_suggestions sets
\* extracted_activity and location_text only where they are null and leaves
\* a non-null extracted_activity, a non-null location_text, latitude,
\* longitude and status as they were.
MergeFillsOnlyNulls ==
    [][lastOp' = "merge" =>
         \A r \in BagToSet(suggestions) :
            r.message_id \in PositiveEntries(llm_candidates) =>
               LET s == llm_candidates[r.message_id]
               IN  /\ Existing(suggestions', r.message_id)
                   /\ \A r2 \in BagToSet(suggestions') :
                         r2.message_id = r.message_id =>
                            /\ r2.extracted_activity =
                                 IF r.extracted_activity # NULL
                                 THEN r.extracted_activity ELSE s.extracted_activity
                            /\ r2.location_text =
                                 IF r.location_text # NULL
                                 THEN r.location_text ELSE s.extracted_location
                            /\ r2.latitude = r.latitude
                            /\ r2.longitude = r.longitude
                            /\ r2.status = r.status]_vars

\* After a merge: a geocoded first-pass row that kept its message text and
\* its geocoded place although its positive entry carries another activity
\* and another location.
MergeFillsOnlyNullsWitness ==
    /\ lastOp = "merge"
    /\ \E r \in BagToSet(suggestions) :
          /\ r.message_id \in PositiveEntries(llm_candidates)
          /\ llm_candidates[r.message_id].extracted_activity = Some("picnic")
          /\ llm_candidates[r.message_id].extracted_location = Some("Piha")
          /\ r.extracted_activity = Some(Content(r.message_id))
          /\ r.location_text = Some("Piha 0772, New Zealand")
          /\ r.latitude # NULL

\* C4: a run of merge_suggestions right after a run of merge_suggestions, on
\* the same queue, leaves the suggestions table as the first run left it.
MergeTwiceIsMergeOnce ==
    [][(lastOp = "merge" /\ lastOp' = "merge") =>
          suggestions' = suggestions]_vars

\* After a merge that inserted one row and filled the location of another.
MergeTwiceIsMergeOnceWitness ==
    /\ lastOp = "merge"
    /\ \E r \in BagToSet(suggestions) :
          r.suggestion_type = "llm" /\ r.extracted_activity = NULL
    /\ \E r \in BagToSet(suggestions) :
          r.suggestion_type # "llm" /\ r.location_text = Some("Piha")

\* C5: when the request of a batch fails with a timeout or a network error,
\* every queue entry of that batch still has processed = false after the
\* run.
FailedRequestLeavesUnprocessed ==
    \A b \in DOMAIN replies :
        replies[b].kind = "error" =>
            \A m \in Range(sent[b]) : ~llm_candidates[m].processed

\* C6, as claimed: the processed flag of the queue entry of a message id
\* never goes from true back to false, whatever stage runs.
ProcessedNeverReverts ==
    [][\A m \in DOMAIN llm_candidates :
          (llm_candidates[m].processed /\ m \in DOMAIN llm_candidates') =>
              llm_candidates'[m].processed]_vars

\* C6, amended: no stage but the semantic stage takes a processed entry
\* away or back to false; the semantic stage clears the queue and creates
\* every entry anew with processed = false.
ProcessedRevertsOnlyOnSave ==
    [][/\ lastOp' # "save" =>
            \A m \in DOMAIN llm_candidates :
                llm_candidates[m].processed =>
                    /\ m \in DOMAIN llm_candidates'
                    /\ llm_candidates'[m].processed
       /\ lastOp' = "save" =>
            \A m \in DOMAIN llm_candidates' : ~llm_candidates'[m].processed]_vars

\* A queue saved anew: the entry of a message whose classifier row shows
\* that it had been processed is back at processed = false.
ProcessedRevertsOnlyOnSaveWitness ==
    /\ lastOp = "save"
    /\ \E r \in BagToSet(suggestions) :
          /\ r.suggestion_type = "llm"
          /\ r.message_id \in DOMAIN llm_candidates
          /\ ~llm_candidates[r.message_id].processed

\* C7: when a reply to a batch request was received (a list of verdicts,
\* with or without one for each message, or text that holds no JSON or does
\* not parse), every message id of that batch has processed = true after
\* the run.
ReplyMarksBatchProcessed ==
    \A b \in DOMAIN replies :
        replies[b].kind \in ReceivedKinds =>
            \A m \in Range(sent[b]) :
                m \in DOMAIN llm_candidates /\ llm_candidates[m].processed

\* A batch answered with a verdict for one message and none for another.
ReplyMarksBatchProcessedWitness ==
    /\ lastOp = "classify"
    /\ \E b \in DOMAIN replies :
          /\ replies[b].kind = "list"
          /\ \E m1, m2 \in Range(sent[b]) :
                /\ replies[b].verdict[m1].v = "none"
                /\ replies[b].verdict[m2].v = "pos"

\* C8: classify_all_candidates requests only entries with processed =
\* false, and a run right after a run that returned requests nothing,
\* changes neither table and returns processed = 0, suggestions = 0.
ClassifyOnlyUnprocessed ==
    [][lastOp' = "classify" =>
         /\ \A b \in DOMAIN sent' :
               \A m \in Range(sent'[b]) :
                   m \in DOMAIN llm_candidates /\ ~llm_candidates[m].processed
         /\ (lastOp = "classify" /\ stats # NULL) =>
               /\ sent' = << >>
               /\ stats' = Some([processed |-> 0, suggestions |-> 0])
               /\ llm_candidates' = llm_candidates
               /\ suggestions' = suggestions]_vars

\* A run that found a queue of processed entries only.
ClassifyOnlyUnprocessedWitness ==
    /\ lastOp = "classify"
    /\ sent = << >>
    /\ stats = Some([processed |-> 0, suggestions |-> 0])
    /\ \E m \in DOMAIN llm_candidates : llm_candidates[m].is_suggestion = Some(TRUE)
    /\ \E m \in DOMAIN llm_candidates : llm_candidates[m].is_suggestion = Some(FALSE)

\* C9: a message with a not-a-suggestion verdict or with no verdict in the
\* reply changes no Suggestion, in classify_all_candidates or in a later
\* merge_suggestions: its entry is marked processed with no positive
\* verdict and nothing else of it changes.  The entries of a batch that a
\* merge inserts or updates are those with an is-a-suggestion verdict, and
\* the run counts as many suggestions.
OnlyPositiveVerdictsMerge ==
    [][/\ lastOp' = "classify" =>
            /\ suggestions' = suggestions
            /\ \A b \in DOMAIN replies' :
                  replies'[b].kind = "list" =>
                      /\ \A m \in Range(sent'[b]) \ PositiveIn(sent'[b], replies'[b]) :
                            llm_candidates'[m] =
                                [llm_candidates[m] EXCEPT !.processed = TRUE,
                                                          !.is_suggestion = Some(FALSE)]
                      /\ PositiveEntries(llm_candidates') \cap Range(sent'[b])
                            = PositiveIn(sent'[b], replies'[b])
            /\ stats' # NULL =>
                  stats'[1].suggestions =
                      Cardinality(UNION { PositiveIn(sent'[b], replies'[b]) :
                                            b \in { x \in DOMAIN replies' :
                                                      replies'[x].kind = "list" } })
       /\ lastOp' = "merge" =>
            /\ \A m \in MsgIds \ PositiveEntries(llm_candidates) :
                  RowsFor(suggestions', m) = RowsFor(suggestions, m)
            /\ \A m \in PositiveEntries(llm_candidates) :
                  RowCount(suggestions', m) = 1]_vars

\* After a merge: a processed entry without a positive verdict and without
\* a Suggestion beside a positive entry with one.
OnlyPositiveVerdictsMergeWitness ==
    /\ lastOp = "merge"
    /\ \E m \in DOMAIN llm_candidates :
          /\ llm_candidates[m].processed
          /\ llm_candidates[m].is_suggestion = Some(FALSE)
          /\ ~Existing(suggestions, m)
    /\ \E m \in PositiveEntries(llm_candidates) : Existing(suggestions, m)

\* C10: for a positive queue entry whose message id has no Suggestion,
\* merge_suggestions inserts exactly one row, tagged 'llm', with the
\* similarity the semantic stage stored as its confidence and with the
\* activity and location of the verdict, which classify_all_candidates
\* stores in the entry without touching the similarity.
MergeInsertsClassifierRow ==
    [][/\ lastOp' = "merge" =>
            \A m \in PositiveEntries(llm_candidates) :
                ~Existing(suggestions, m) =>
                    /\ RowCount(suggestions', m) = 1
                    /\ \A r \in BagToSet(suggestions') :
                          r.message_id = m =>
                             /\ r.suggestion_type = "llm"
                             /\ r.confidence = llm_candidates[m].similarity
                             /\ r.extracted_activity = llm_candidates[m].extracted_activity
                             /\ r.location_text = llm_candidates[m].extracted_location
       /\ lastOp' = "classify" =>
            \A b \in DOMAIN replies' :
                replies'[b].kind = "list" =>
                    \A m \in PositiveIn(sent'[b], replies'[b]) :
                        /\ llm_candidates'[m].similarity = llm_candidates[m].similarity
                        /\ llm_candidates'[m].extracted_activity
                              = replies'[b].verdict[m].activity
                        /\ llm_candidates'[m].extracted_location
                              = replies'[b].verdict[m].location]_vars

\* After a merge: a classifier row with the verdict's activity and
\* location at the similarity of its entry, under the service's own 0.95.
MergeInsertsClassifierRowWitness ==
    /\ lastOp = "merge"
    /\ \E r \in BagToSet(suggestions) :
          /\ r.suggestion_type = "llm"
          /\ r.message_id \in PositiveEntries(llm_candidates)
          /\ r.confidence = llm_candidates[r.message_id].similarity
          /\ r.confidence < 95
          /\ r.extracted_activity = Some("picnic")
          /\ r.location_text = Some("Piha")


\* The candidates of a list that are about message m, by position.
CandidatesOfMessage(list, m) == { i \in DOMAIN list : list[i].message_id = m }

\* C11: once the first pass has run, no message whose text matches an
\* exclusion pattern has a candidate of find_suggestions_regex, whichever
\* suggestion rules and activity keywords match it too.
ExcludedYieldsNoCandidate ==
    lastOp = "first_pass" =>
        \A m \in DOMAIN messages :
            Excluded(Content(m)) => CandidatesOfMessage(first_pass.regex, m) = {}

\* A first pass over a table holding an excluded text that a rule matches.
ExcludedYieldsNoCandidateWitness ==
    /\ lastOp = "first_pass"
    /\ \E m \in DOMAIN messages :
          /\ Excluded(Content(m))
          /\ MatchingRules(Content(m)) # {}
          /\ CandidatesOfMessage(first_pass.regex, m) = {}

\* C12: find_suggestions_regex emits at most one candidate per message; for
\* a message that is not excluded and that some rule matches, it is the
\* candidate of the earliest-declared matching rule, also when a later
\* matching rule has a higher base confidence.
FirstMatchingRuleWins ==
    lastOp = "first_pass" =>
        \A m \in DOMAIN messages :
            LET mine == CandidatesOfMessage(first_pass.regex, m)
                rules == MatchingRules(Content(m))
            IN  /\ Cardinality(mine) <= 1
                /\ (Content(m) # "" /\ ~Excluded(Content(m)) /\ rules # {}) =>
                      \E i \in mine, r \in rules :
                          /\ \A q \in rules : r <= q
                          /\ first_pass.regex[i].suggestion_type
                                = "regex:" \o SUGGESTION_PATTERNS[r].name

\* A first pass over a text that two rules match, the later one with the
\* higher base confidence, and whose candidate is the earlier rule's.
FirstMatchingRuleWinsWitness ==
    /\ lastOp = "first_pass"
    /\ \E m \in DOMAIN messages :
          \E r, q \in MatchingRules(Content(m)) :
              /\ r < q
              /\ SUGGESTION_PATTERNS[r].confidence < SUGGESTION_PATTERNS[q].confidence
              /\ \E i \in CandidatesOfMessage(first_pass.regex, m) :
                    first_pass.regex[i].suggestion_type
                       = "regex:" \o SUGGESTION_PATTERNS[r].name

\* C13: the confidence of a candidate of find_suggestions_regex is the base
\* confidence of its rule when no activity keyword matches the text, the
\* smaller of 1.0 and base + 0.15 when one does; it never exceeds 1.0.
BoostIsCappedAtOne ==
    lastOp = "first_pass" =>
        \A i \in DOMAIN first_pass.regex :
            LET c == first_pass.regex[i]
                content == Content(c.message_id)
            IN  /\ c.confidence <= 100
                /\ \E r \in DOMAIN SUGGESTION_PATTERNS :
                      LET base == SUGGESTION_PATTERNS[r].confidence
                      IN  /\ c.suggestion_type = "regex:" \o SUGGESTION_PATTERNS[r].name
                          /\ HasKeyword(content) =>
                                c.confidence = IF base + 15 > 100 THEN 100 ELSE base + 15
                          /\ ~HasKeyword(content) => c.confidence = base

\* we_should (0.9) on a text with an activity keyword: exactly 1.0, beside
\* a candidate that keeps its base confidence.
BoostIsCappedAtOneWitness ==
    /\ lastOp = "first_pass"
    /\ \E i \in DOMAIN first_pass.regex :
          /\ first_pass.regex[i].suggestion_type = "regex:we_should"
          /\ HasKeyword(Content(first_pass.regex[i].message_id))
          /\ first_pass.regex[i].confidence = 100
    /\ \E i \in DOMAIN first_pass.regex :
          /\ ~HasKeyword(Content(first_pass.regex[i].message_id))
          /\ first_pass.regex[i].confidence < 100

\* C15: find_url_suggestions emits at most one candidate per message id,
\* also for a message that carries several qualifying links.
UrlOneCandidatePerMessage ==
    \A m \in DOMAIN messages :
        Cardinality(CandidatesOfMessage(first_pass.url, m)) <= 1

\* C16: store_suggestions leaves, for every message id of the candidate
\* list, exactly one row, that of the candidate with the highest confidence
\* among the message's candidates and, among several of that confidence, of
\* the one that comes first in the list (regex candidates before url ones);
\* it leaves no other row.
StoreKeepsFirstHighest ==
    lastOp = "first_pass" =>
        LET all == first_pass.regex \o first_pass.url
            ids == { all[i].message_id : i \in DOMAIN all }
        IN  /\ BagCardinality(suggestions) = Cardinality(ids)
            /\ \A m \in ids :
                  LET mine == CandidatesOfMessage(all, m)
                      best == CHOOSE i \in mine :
                                \A j \in mine :
                                    \/ all[j].confidence < all[i].confidence
                                    \/ (all[j].confidence = all[i].confidence /\ i <= j)
                  IN  /\ RowCount(suggestions, m) = 1
                      /\ \A r \in BagToSet(suggestions) :
                            r.message_id = m =>
                               /\ r.suggestion_type = all[best].suggestion_type
                               /\ r.confidence = all[best].confidence
                               /\ r.extracted_activity = Some(Truncate(Content(m)))

\* A first pass where a regex and a url candidate of one message share the
\* highest confidence and the stored row is the regex one, and where a
\* later candidate of higher confidence replaced an earlier one.
StoreKeepsFirstHighestWitness ==
    /\ lastOp = "first_pass"
    /\ LET all == first_pass.regex \o first_pass.url
       IN  /\ \E i, j \in DOMAIN all :
                 /\ i < j
                 /\ all[i].message_id = all[j].message_id
                 /\ all[i].confidence = all[j].confidence
                 /\ all[i].suggestion_type # all[j].suggestion_type
                 /\ \E r \in BagToSet(suggestions) :
                       /\ r.message_id = all[i].message_id
                       /\ r.suggestion_type = all[i].suggestion_type
           /\ \E i, j \in DOMAIN all :
                 /\ i < j
                 /\ all[i].message_id = all[j].message_id
                 /\ all[i].confidence < all[j].confidence
                 /\ \E r \in BagToSet(suggestions) :
                       /\ r.message_id = all[j].message_id
                       /\ r.suggestion_type = all[j].suggestion_type


\* The similarities of message m to the seed queries of the last run.
SeedSimilarities(m) ==
    { Similarity[searches[q].query_embedding, embeddings[m]] : q \in DOMAIN searches }

\* The similarities the searches of the last run returned for message m.
ReturnedSimilarities(m) ==
    { x \in 0 .. 100 :
        \E q \in DOMAIN searches : \E i \in DOMAIN searches[q].results :
            /\ searches[q].results[i].message_id = m
            /\ searches[q].results[i].similarity = x }

\* C14 as stated: the similarity recorded for a candidate is the maximum of
\* its similarities to all the seed queries, whatever the top-k cut-off of
\* a search left out.
RecordedIsMaximumOverQueries ==
    lastOp = "semantic" =>
        \A m \in DOMAIN llm_candidates :
            /\ llm_candidates[m].similarity \in SeedSimilarities(m)
            /\ \A x \in SeedSimilarities(m) : x <= llm_candidates[m].similarity

\* C14 (amended): the similarity recorded for a candidate is the maximum of
\* the similarities the seed searches returned for it, each of them its
\* cosine similarity to that query; it is no sum and no average of them.
RecordedIsMaximumReturned ==
    lastOp = "semantic" =>
        /\ \A q \in DOMAIN searches : \A i \in DOMAIN searches[q].results :
              LET r == searches[q].results[i]
              IN  r.similarity = Similarity[searches[q].query_embedding,
                                            embeddings[r.message_id]]
        /\ \A m \in DOMAIN llm_candidates :
              /\ llm_candidates[m].similarity \in ReturnedSimilarities(m)
              /\ \A x \in ReturnedSimilarities(m) : x <= llm_candidates[m].similarity

\* A candidate two searches returned with different similarities, recorded
\* with the higher one, beside a candidate whose best query cut it off.
RecordedIsMaximumReturnedWitness ==
    /\ lastOp = "semantic"
    /\ \E m \in DOMAIN llm_candidates :
          /\ Cardinality(ReturnedSimilarities(m)) = 2
          /\ \A x \in ReturnedSimilarities(m) : x <= llm_candidates[m].similarity
    /\ \E m \in DOMAIN llm_candidates :
          \E x \in SeedSimilarities(m) : x > llm_candidates[m].similarity

\* The messages embed_all_messages may embed: those with text that is no
\* media placeholder.
HasUsableText(m) == Content(m) # "" /\ ~detect_media_type(Content(m))

\* The message ids of the provider calls of a run.
EmbedCalled(log) == UNION { Range(log[b].ids) : b \in DOMAIN log }

\* C18: when a batch embedding call fails, every item of the batch is
\* retried on its own; an item whose single call succeeds has its embedding
\* stored, an item whose single call fails has none and is selected again
\* by the next run (every run selects all messages with usable text and no
\* embedding), and the batches after the failed one are processed.
FailedBatchRetriedPerItem ==
    [][ lastOp' = "semantic" =>
          /\ EmbedCalled(embed_run')
                = { m \in DOMAIN messages : HasUsableText(m) /\ m \notin DOMAIN embeddings }
          /\ \A b \in DOMAIN embed_run' :
                \A m \in Range(embed_run'[b].ids) :
                    IF embed_run'[b].vector[m] = NULL
                    THEN ~embed_run'[b].batch_ok /\ m \notin DOMAIN embeddings'
                    ELSE m \in DOMAIN embeddings'
                         /\ embeddings'[m] = embed_run'[b].vector[m] ]_vars

\* A run whose first batch call failed, one of its items embedded on its
\* own and the other not, and whose second batch was embedded; the item
\* left out has usable text and no embedding, so the next run selects it.
FailedBatchRetriedPerItemWitness ==
    /\ lastOp = "semantic"
    /\ Len(embed_run) = 2
    /\ ~embed_run[1].batch_ok
    /\ \E m, n \in Range(embed_run[1].ids) :
          /\ embed_run[1].vector[m] # NULL
          /\ m \in DOMAIN embeddings
          /\ embed_run[1].vector[n] = NULL
          /\ n \notin DOMAIN embeddings
          /\ HasUsableText(n)
    /\ \A m \in Range(embed_run[2].ids) : m \in DOMAIN embeddings

\* C19: over any number of runs, failed provider calls included, a stored
\* embedding stays as it is, no run calls the provider for a message that
\* has one or twice for one message, and no message with empty content or
\* a media placeholder has one.
EmbeddedOnceAndOnlyText ==
    [][ /\ \A m \in DOMAIN embeddings :
              m \in DOMAIN embeddings' /\ embeddings'[m] = embeddings[m]
        /\ lastOp' = "semantic" =>
              /\ EmbedCalled(embed_run') \cap DOMAIN embeddings = {}
              /\ \A b, c \in DOMAIN embed_run' :
                    /\ \A i, j \in DOMAIN embed_run'[b].ids :
                          i # j => embed_run'[b].ids[i] # embed_run'[b].ids[j]
                    /\ b # c => Range(embed_run'[b].ids) \cap Range(embed_run'[c].ids) = {}
        /\ \A m \in DOMAIN embeddings' : HasUsableText(m) ]_vars

\* After a run with a failed call: an embedding an earlier run stored, a
\* message with text still without one, and the empty message and the
\* placeholder without one.
EmbeddedOnceAndOnlyTextWitness ==
    /\ lastOp = "semantic"
    /\ \E m \in DOMAIN embeddings : m \notin EmbedCalled(embed_run)
    /\ \E b \in DOMAIN embed_run : \E m \in Range(embed_run[b].ids) :
          embed_run[b].vector[m] = NULL
    /\ \E m \in DOMAIN messages : Content(m) = "" /\ m \notin DOMAIN embeddings
    /\ \E m \in DOMAIN messages :
          detect_media_type(Content(m)) /\ m \notin DOMAIN embeddings


\* C17 as stated: whatever the outcome of a batch request that is no list
\* of verdicts (the request failing, no structured block, a block that does
\* not parse, a parsed block that is no list of verdict objects), the run
\* counts no verdict for the batch, goes on, and returns only after it has
\* sent the request of every batch.
BatchFailureNotFatal ==
    [][ /\ (lastOp' \in { "request", "raised" }
              /\ replies'[Len(replies')].kind # "list") =>
                /\ lastOp' = "request"
                /\ classify_run' # NULL
                /\ classify_run'.suggestions = classify_run.suggestions
        /\ (lastOp' = "classify" /\ classify_run # NULL) =>
                Len(sent') = NumBatches(classify_run.candidates) ]_vars

\* What the queue entry of message m holds once the reply to its batch has
\* been written.
HoldsVerdict(entry, reply, m) ==
    /\ entry.processed
    /\ IF reply.kind = "list" /\ reply.verdict[m].v = "pos"
       THEN /\ entry.is_suggestion = Some(TRUE)
            /\ entry.extracted_activity = reply.verdict[m].activity
            /\ entry.extracted_location = reply.verdict[m].location
       ELSE entry.is_suggestion = Some(FALSE)

\* C20: when classify_all_candidates stops at any point of a run, every
\* entry of every batch committed before keeps processed = true and its
\* verdict, the entries left unprocessed are those of the batch in flight
\* and of the batches not yet started, and the next run selects exactly the
\* entries still unprocessed and sends them batch by batch.
CrashKeepsCommittedBatches ==
    [][ /\ lastOp' = "crash" =>
              LET candidates == classify_run.candidates
                  committed == classify_run.b - 1
              IN  /\ \A k \in 1 .. committed :
                        \A m \in Range(sent[k]) :
                            HoldsVerdict(llm_candidates'[m], replies[k], m)
                  /\ { m \in DOMAIN llm_candidates' : ~llm_candidates'[m].processed }
                        = UNION { Range(Batch(candidates, k)) :
                                    k \in committed + 1 .. NumBatches(candidates) }
        /\ lastOp' = "select" =>
              Range(classify_run'.candidates)
                 = { m \in DOMAIN llm_candidates : ~llm_candidates[m].processed }
        /\ lastOp' \in { "request", "raised" } =>
              sent' = Append(sent, Batch(classify_run.candidates, classify_run.b))
      ]_vars

\* A run stopped with its second batch in flight: the entries of the first
\* batch are processed, one of them with the verdict of the reply, and the
\* entry of the second batch is not.
CrashKeepsCommittedBatchesWitness ==
    /\ lastOp = "crash"
    /\ Len(sent) = 2
    /\ replies[1].kind = "list"
    /\ \A m \in Range(sent[1]) : HoldsVerdict(llm_candidates[m], replies[1], m)
    /\ \E m \in Range(sent[1]) : llm_candidates[m].is_suggestion = Some(TRUE)
    /\ \A m \in Range(sent[2]) : ~llm_candidates[m].processed


\* C21 as stated: a coordinate write-back by geocode_suggestions,
\* update_suggestion_coords or process_google_maps_urls changes only rows
\* without coordinates, and never replaces a non-null location_text.
WriteBackKeepsExisting ==
    [][ lastOp' \in { "geocode", "resolve_urls", "maps" } =>
          \A r \in BagToSet(suggestions) :
              /\ r.latitude # NULL =>
                    CopiesIn(r, suggestions') = CopiesIn(r, suggestions)
              /\ r.location_text # NULL =>
                    \A r2 \in BagToSet(suggestions') :
                        r2.message_id = r.message_id =>
                            r2.location_text = r.location_text ]_vars


\* C22 as stated: when the embedding of a seed query fails in
\* find_activity_candidates, the remaining seed queries are still run and
\* the candidates they find are returned and saved.
SeedQueryFailureNotFatal ==
    [][ (\E q \in DOMAIN searches' : searches'[q].query_embedding = NULL) =>
          /\ Len(searches') = Len(SeedQueries)
          /\ lastOp' = "semantic"
          /\ \A q \in DOMAIN searches' : \A i \in DOMAIN searches'[q].results :
                searches'[q].results[i].message_id \in DOMAIN llm_candidates' ]_vars


\* C23: cosine_similarity returns exactly 0 whenever either argument has
\* zero norm, for every pair of vectors, and never raises a division error.
ZeroNormGivesZero ==
    cosine # NULL =>
        /\ cosine.result # NULL
        /\ (Dot(cosine.a, cosine.a) = 0 \/ Dot(cosine.b, cosine.b) = 0) =>
              cosine.result = Some(0)

\* A call with the zero vector and a vector that is not zero.
ZeroNormGivesZeroWitness ==
    /\ cosine # NULL
    /\ cosine.a = << 0, 0 >>
    /\ Dot(cosine.b, cosine.b) > 0
    /\ cosine.result = Some(0)


\* C24 as stated: on empty input every stage is a no-op reporting a zero
\* count: store_suggestions with an empty candidate list (the only list
\* that leaves no row), classify_all_candidates without an unprocessed
\* entry and merge_suggestions without a positive verdict leave the
\* suggestions table and the queue as they were.
EmptyInputIsNoOp ==
    [][ /\ (lastOp' = "store" /\ suggestions' = EmptyBag) =>
              /\ suggestions' = suggestions
              /\ llm_candidates' = llm_candidates
        /\ (lastOp' = "classify" /\ Unprocessed(llm_candidates) = {}) =>
              /\ suggestions' = suggestions
              /\ llm_candidates' = llm_candidates
              /\ sent' = << >>
              /\ stats' = Some([ processed |-> 0, suggestions |-> 0 ])
        /\ (lastOp' = "merge" /\ LlmSuggestions(llm_candidates) = {}) =>
              /\ suggestions' = suggestions
              /\ llm_candidates' = llm_candidates ]_vars


\* C25 as stated: after merge_suggestions fills a field or raises the
\* confidence of an existing row, the row's suggestion_type is the
\* classifier tag.
MergeRetagsContributedRow ==
    [][ lastOp' = "merge" =>
          \A r \in BagToSet(suggestions') :
              r \notin BagToSet(suggestions) => r.suggestion_type = "llm" ]_vars


\* The message ids of a candidate list, and those that have a row.
MessagesOf(list) == { list[i].message_id : i \in DOMAIN list }

WithSuggestion(table) == { r.message_id : r \in BagToSet(table) }

\* C26: after a first pass followed by a second pass the message ids that
\* have a Suggestion are exactly those with a pattern candidate, a URL
\* candidate or a queue entry with a positive verdict, each with exactly
\* one row; the same when the first pass ran after an earlier second pass
\* and the second pass is repeated on the queue as it is.
EvidenceHasExactlyOneRow ==
    [][ (lastOp = "first_pass" /\ lastOp' = "merge") =>
          LET evidence == MessagesOf(first_pass.regex)
                            \cup MessagesOf(first_pass.url)
                            \cup PositiveEntries(llm_candidates)
          IN  \A m \in DOMAIN messages :
                 RowCount(suggestions', m) = IF m \in evidence THEN 1 ELSE 0 ]_vars

\* After the two passes: a row of the first pass that the second pass
\* also found, a row only the second pass found, and a message with no
\* evidence and no row.
EvidenceHasExactlyOneRowWitness ==
    /\ lastOp = "merge"
    /\ \E r \in BagToSet(suggestions) :
          /\ r.suggestion_type # "llm"
          /\ r.message_id \in PositiveEntries(llm_candidates)
    /\ \E r \in BagToSet(suggestions) :
          /\ r.suggestion_type = "llm"
          /\ r.message_id \notin MessagesOf(first_pass.regex \o first_pass.url)
    /\ \E m \in DOMAIN messages :
          /\ m \notin WithSuggestion(suggestions)
          /\ m \notin PositiveEntries(llm_candidates)
    /\ WithSuggestion(suggestions)
          = MessagesOf(first_pass.regex \o first_pass.url)
              \cup PositiveEntries(llm_candidates)


\* C30: every row the first pass writes has the message content (its first
\* 500 characters) as extracted_activity, never null; a later
\* merge_suggestions leaves the extracted_activity of the row of a message
\* with a pattern or URL candidate at the message text and changes nothing
\* of the row but location_text and confidence.
FirstPassActivityStays ==
    [][ /\ lastOp' = "first_pass" =>
              \A r \in BagToSet(suggestions') :
                  /\ r.extracted_activity # NULL
                  /\ r.extracted_activity = Some(Truncate(Content(r.message_id)))
        /\ lastOp' = "merge" =>
              \A r \in BagToSet(suggestions) :
                  r.message_id \in MessagesOf(first_pass.regex \o first_pass.url) =>
                      \E r2 \in BagToSet(suggestions') :
                          /\ r2 = [ r EXCEPT !.location_text = r2.location_text,
                                             !.confidence = r2.confidence ]
                          /\ r2.extracted_activity
                                = Some(Truncate(Content(r.message_id))) ]_vars

\* A first-pass row after a merge of a positive verdict that carries an
\* activity summary: the location and the confidence are the classifier's,
\* the activity is still the message text.
FirstPassActivityStaysWitness ==
    /\ lastOp = "merge"
    /\ \E r \in BagToSet(suggestions) :
          LET m == r.message_id
          IN  /\ m \in MessagesOf(first_pass.regex \o first_pass.url)
              /\ m \in PositiveEntries(llm_candidates)
              /\ llm_candidates[m].extracted_activity = Some("picnic")
              /\ r.extracted_activity = Some(Content(m))
              /\ r.location_text = llm_candidates[m].extracted_location
              /\ r.location_text # NULL
              /\ r.confidence = llm_candidates[m].similarity


\* C27: the set of message ids that have a Suggestion never shrinks under
\* the semantic stage, classify_all_candidates, merge_suggestions or a
\* geocoding write-back; store_suggestions removes every row there was,
\* classifier rows and coordinates included: what it leaves are the rows
\* of its own candidates with every other column at its default.
OnlyRebuildRemovesRows ==
    [][ /\ lastOp' # "store" =>
              WithSuggestion(suggestions) \subseteq WithSuggestion(suggestions')
        /\ lastOp' = "store" =>
              \A r \in BagToSet(suggestions') :
                  /\ r.suggestion_type # "llm"
                  /\ r.latitude = NULL
                  /\ r.longitude = NULL
                  /\ r.location_text = NULL ]_vars

\* A rebuild that removed a classifier row: the queue holds a positive
\* verdict for a message that has no row, a link has been resolved, and
\* the rows left carry no coordinates.
OnlyRebuildRemovesRowsWitness ==
    /\ lastOp = "store"
    /\ suggestions # EmptyBag
    /\ urls_resolved # {}
    /\ \E m \in PositiveEntries(llm_candidates) : m \notin WithSuggestion(suggestions)


\* The columns a first-pass row takes from its candidate.
KeptColumns(table) ==
    { [ message_id |-> r.message_id,
        suggestion_type |-> r.suggestion_type,
        confidence |-> r.confidence,
        extracted_activity |-> r.extracted_activity ] : r \in BagToSet(table) }

\* The loop of merge_suggestions taking the positive verdicts in a given
\* order.
RECURSIVE MergeInOrder(_, _, _)
MergeInOrder(table, queue, order) ==
    IF order = << >> THEN table
    ELSE MergeInOrder(MergeOne(table, Head(order), queue[Head(order)]),
                      queue, Tail(order))

\* C28 as stated: store_suggestions leaves the same rows for every
\* permutation of its candidate list, and merge_suggestions the same table
\* for every order of the positive verdicts.
MergeIsOrderIndependent ==
    lastOp = "first_pass" =>
        LET cands == first_pass.regex \o first_pass.url
            positive == LlmSuggestions(llm_candidates)
        IN  /\ \A p \in Permutations(DOMAIN cands) :
                  KeptColumns(StoreRows([ i \in DOMAIN cands |-> cands[p[i]] ]))
                     = KeptColumns(suggestions)
            /\ \A p \in Permutations(DOMAIN Ascending(positive)) :
                  MergeInOrder(suggestions, llm_candidates,
                               [ i \in DOMAIN Ascending(positive) |->
                                   Ascending(positive)[p[i]] ])
                     = MergeAll(suggestions, llm_candidates, positive)

\* The base confidence of the link type of a URL candidate.
BaseConfidence(c) ==
    confidence_map[SubSeq(c.suggestion_type, 5, Len(c.suggestion_type))]

\* C29 as stated: the confidence of a URL candidate is the base confidence
\* of its link type, raised once by the boost of the pattern scorer (0.15)
\* and capped at 1.0 when the text holds suggestion phrasing or an
\* activity keyword, and the base confidence itself otherwise.
UrlBoostIsPatternBoost ==
    lastOp = "first_pass" =>
        \A i \in DOMAIN first_pass.url :
            LET c == first_pass.url[i]
                content == Content(c.message_id)
                signalled == \/ HasKeyword(content)
                             \/ \E phrase \in URL_PHRASES :
                                   Contains(Scans[content].lower, phrase)
            IN  c.confidence = IF signalled
                               THEN Min(100, BaseConfidence(c) + ACTIVITY_BOOST)
                               ELSE BaseConfidence(c)

====
